---- MODULE Spec2Model ----
(***************************************************************************)
(* Model of the mailbox chess board of chess_lib (board/mailbox.rs), its   *)
(* coordinate types (board/mod.rs) and pieces (piece.rs).                  *)
(*                                                                         *)
(* A Board is a total function from the 64 Positions to Option<Piece>.     *)
(* Option<T> is modelled as a sequence of length at most one: None is <<>> *)
(* and Some(v) is <<v>>.  Result<T, E> is a record with the field ok.      *)
(* Vec<Position> is a sequence, in the order the code pushes.              *)
(***************************************************************************)
EXTENDS Integers, Sequences, FiniteSets, TLC

\* ------------------------------------------------------------------ bounds

\* Number of calls made on one board in a behaviour of Spec.
MaxCalls == 2

\* Number of pieces, besides the piece under examination, on a board of InitAny.
MaxBlockers == 2

\* Largest magnitude of an integer passed to Position::new and Offset::new.
MaxCoord == 9

\* ------------------------------------------------------- Option and Result

None == << >>

Some(v) == << v >>

Unwrap(o) == o[1]

Ok(v) == [ok |-> TRUE, val |-> v]

Err(e) == [ok |-> FALSE, err |-> e]

\* The unit value ().
Unit == << >>

\* ------------------------------------------------------------------ pieces

Color == {"White", "Black"}

\* `color as i8` with both colours given the discriminant 1.
ColorAsI8_same(color) == 1

\* `color as i8`: enum Color { White = 1, Black = -1 }.
ColorAsI8(color) == IF color = "White" THEN 1 ELSE -1

PieceType == {"Pawn", "Knight", "Bishop", "Rook", "Queen", "King"}

Piece == [color : Color, piece_type : PieceType, moved : BOOLEAN]

Piece_new(color, piece_type) ==
    [color |-> color, piece_type |-> piece_type, moved |-> FALSE]

\* ------------------------------------------------------------------ errors

NotFound(position) == [kind |-> "NotFound", position |-> position]

Occupied(position, piece_type) ==
    [kind |-> "Occupied", position |-> position, piece_type |-> piece_type]

PositionOutOfBounds(x, y) == [kind |-> "PositionOutOfBounds", x |-> x, y |-> y]

OffsetOutOfBounds(x, y) == [kind |-> "OffsetOutOfBounds", x |-> x, y |-> y]

\* ------------------------------------------------------------- coordinates

\* Width of the board: Position::new accepts x < 8 && y < 8.
BoardSize == 8

Position == [x : 0 .. BoardSize - 1, y : 0 .. BoardSize - 1]

Pos(x, y) == [x |-> x, y |-> y]

Off(x, y) == [x |-> x, y |-> y]

\* Position::new accepting 8.
Position_new_inclusive(x, y) ==
    IF x <= BoardSize /\ y <= BoardSize
    THEN Ok([x |-> x, y |-> y])
    ELSE Err(PositionOutOfBounds(x, y))

Position_new(x, y) ==
    IF x < BoardSize /\ y < BoardSize
    THEN Ok(Pos(x, y))
    ELSE Err(PositionOutOfBounds(x, y))

\* Offset::new accepting -8.
Offset_new_inclusive(x, y) ==
    IF -BoardSize <= x /\ x < BoardSize /\ -BoardSize <= y /\ y < BoardSize
    THEN Ok([x |-> x, y |-> y])
    ELSE Err(OffsetOutOfBounds(x, y))

Offset_new(x, y) ==
    IF -BoardSize < x /\ x < BoardSize /\ -BoardSize < y /\ y < BoardSize
    THEN Ok(Off(x, y))
    ELSE Err(OffsetOutOfBounds(x, y))

\* Two's-complement wrap of an i8 sum (release build arithmetic).
I8(n) == ((n + 128) % 256) - 128

\* Addition that wraps around the board instead of failing.
Add_wrapping(self, rhs) ==
    Ok([x |-> (self.x + rhs.x) % BoardSize, y |-> (self.y + rhs.y) % BoardSize])

\* impl Add<Offset> for Position: the sum in i8, then u8::try_from (fails on
\* a negative value), then Position::new.
Add(self, rhs) ==
    LET new_x == I8(self.x + rhs.x)
        new_y == I8(self.y + rhs.y)
    IN  IF new_x < 0 THEN Err(PositionOutOfBounds(new_x, new_y))
        ELSE IF new_y < 0 THEN Err(PositionOutOfBounds(new_x, new_y))
        ELSE Position_new(new_x, new_y)

Direction == {"N", "NE", "E", "SE", "S", "SW", "W", "NW"}

\* The match of check_direction from a Direction to its unit Offset.
DirectionOffset(direction) ==
    CASE direction = "N"  -> Off(0, 1)
      [] direction = "NE" -> Off(1, 1)
      [] direction = "E"  -> Off(1, 0)
      [] direction = "SE" -> Off(1, -1)
      [] direction = "S"  -> Off(0, -1)
      [] direction = "SW" -> Off(-1, -1)
      [] direction = "W"  -> Off(-1, 0)
      [] direction = "NW" -> Off(-1, 1)

\* ------------------------------------------------------------------- board

BackRank ==
    << "Rook", "Knight", "Bishop", "Queen", "King", "Bishop", "Knight", "Rook" >>

\* The layout table read through pieces[(x, y)]: files and ranks exchanged.
DEFAULT_BOARD_by_column ==
    [p \in Position |->
        CASE p.x = 0 -> Some(Piece_new("White", BackRank[p.y + 1]))
          [] p.x = 1 -> Some(Piece_new("White", "Pawn"))
          [] p.x = 6 -> Some(Piece_new("Black", "Pawn"))
          [] p.x = 7 -> Some(Piece_new("Black", BackRank[p.y + 1]))
          [] OTHER   -> None]

\* The static layout table, row-major from rank y = 0; Index reads
\* pieces[(y, x)].
DEFAULT_BOARD ==
    [p \in Position |->
        CASE p.y = 0 -> Some(Piece_new("White", BackRank[p.x + 1]))
          [] p.y = 1 -> Some(Piece_new("White", "Pawn"))
          [] p.y = 6 -> Some(Piece_new("Black", "Pawn"))
          [] p.y = 7 -> Some(Piece_new("Black", BackRank[p.x + 1]))
          [] OTHER   -> None]

Board_new == DEFAULT_BOARD

\* move_piece as the capture-by-overwrite revision had it: the destination
\* is cleared before the source is looked at.
move_piece_overwrite(self, from_position, to_position) ==
    LET b0 == [self EXCEPT ![to_position] = None]
    IN  IF b0[from_position] = None
        THEN [board |-> b0, result |-> Err(NotFound(from_position))]
        ELSE LET piece == [Unwrap(b0[from_position]) EXCEPT !.moved = TRUE]
             IN  [board  |-> [b0 EXCEPT ![to_position] = Some(piece),
                                        ![from_position] = None],
                  result |-> Ok(Unit)]

\* move_piece looking at the source first and reporting the moving piece's type.
move_piece_mover_type(self, from_position, to_position) ==
    IF self[from_position] = None
    THEN [board |-> self, result |-> Err(NotFound(from_position))]
    ELSE IF self[to_position] # None
    THEN [board  |-> self,
          result |-> Err(Occupied(to_position,
                                  Unwrap(self[from_position]).piece_type))]
    ELSE LET piece == [Unwrap(self[from_position]) EXCEPT !.moved = TRUE]
         IN  [board  |-> [self EXCEPT ![to_position] = Some(piece),
                                      ![from_position] = None],
              result |-> Ok(Unit)]

\* move_piece without `piece.moved = true`.
move_piece_unmarked(self, from_position, to_position) ==
    IF self[to_position] # None
    THEN [board  |-> self,
          result |-> Err(Occupied(to_position,
                                  Unwrap(self[to_position]).piece_type))]
    ELSE IF self[from_position] = None
    THEN [board |-> self, result |-> Err(NotFound(from_position))]
    ELSE [board  |-> [self EXCEPT ![to_position] = self[from_position],
                                  ![from_position] = None],
          result |-> Ok(Unit)]

\* move_piece writing the destination through an index with x and y exchanged.
move_piece_transposed(self, from_position, to_position) ==
    IF self[to_position] # None
    THEN [board  |-> self,
          result |-> Err(Occupied(to_position,
                                  Unwrap(self[to_position]).piece_type))]
    ELSE IF self[from_position] = None
    THEN [board |-> self, result |-> Err(NotFound(from_position))]
    ELSE LET piece == [Unwrap(self[from_position]) EXCEPT !.moved = TRUE]
             b1 == [self EXCEPT ![from_position] = None]
         IN  [board  |-> [b1 EXCEPT ![[x |-> to_position.y, y |-> to_position.x]] =
                                        Some(piece)],
              result |-> Ok(Unit)]

\* move_piece flipping the moved flag instead of setting it.
move_piece_toggles(self, from_position, to_position) ==
    IF self[to_position] # None
    THEN [board  |-> self,
          result |-> Err(Occupied(to_position,
                                  Unwrap(self[to_position]).piece_type))]
    ELSE IF self[from_position] = None
    THEN [board |-> self, result |-> Err(NotFound(from_position))]
    ELSE LET piece == [Unwrap(self[from_position]) EXCEPT !.moved = ~@]
         IN  [board  |-> [self EXCEPT ![to_position] = Some(piece),
                                      ![from_position] = None],
              result |-> Ok(Unit)]

\* move_piece without `self[from_position] = None`: the piece is copied.
move_piece_copies(self, from_position, to_position) ==
    IF self[to_position] # None
    THEN [board  |-> self,
          result |-> Err(Occupied(to_position,
                                  Unwrap(self[to_position]).piece_type))]
    ELSE IF self[from_position] = None
    THEN [board |-> self, result |-> Err(NotFound(from_position))]
    ELSE LET piece == [Unwrap(self[from_position]) EXCEPT !.moved = TRUE]
         IN  [board  |-> [self EXCEPT ![to_position] = Some(piece)],
              result |-> Ok(Unit)]

\* Board::move_piece: the new board and the returned Result.
move_piece(self, from_position, to_position) ==
    IF self[to_position] # None
    THEN [board  |-> self,
          result |-> Err(Occupied(to_position,
                                  Unwrap(self[to_position]).piece_type))]
    ELSE IF self[from_position] = None
    THEN [board |-> self, result |-> Err(NotFound(from_position))]
    ELSE LET piece == [Unwrap(self[from_position]) EXCEPT !.moved = TRUE]
             b1 == [self EXCEPT ![from_position] = Some(piece)]
             b2 == [b1 EXCEPT ![to_position] = b1[from_position]]
             b3 == [b2 EXCEPT ![from_position] = None]
         IN  [board |-> b3, result |-> Ok(Unit)]

\* take_piece that clears the cell and reports Ok whatever the cell held.
take_piece_silent(self, position) ==
    [board |-> [self EXCEPT ![position] = None], result |-> Ok(Unit)]

\* Board::take_piece: the new board and the returned Result.
take_piece(self, position) ==
    IF self[position] # None
    THEN [board |-> [self EXCEPT ![position] = None], result |-> Ok(Unit)]
    ELSE [board |-> self, result |-> Err(NotFound(position))]

\* check_position letting can_take decide for a piece of either colour.
check_position_any_color(self, position, color, can_take, must_take) ==
    IF self[position] = None THEN ~must_take
    ELSE can_take

\* Board::check_position: may a piece of `color` enter `position`.
check_position(self, position, color, can_take, must_take) ==
    IF self[position] = None THEN ~must_take
    ELSE IF Unwrap(self[position]).color = color THEN FALSE
    ELSE can_take

\* The loop of check_direction without the test of the blocking piece's colour.
RECURSIVE check_direction_loop_any_color(_, _, _, _, _)
check_direction_loop_any_color(self, position, offset, color, positions) ==
    LET next == Add(position, offset)
    IN  IF ~next.ok THEN positions
        ELSE IF self[next.val] = None
        THEN check_direction_loop_any_color(self, next.val, offset, color,
                                            Append(positions, next.val))
        ELSE Append(positions, next.val)

\* The loop of check_direction stopping in front of every piece.
RECURSIVE check_direction_loop_no_take(_, _, _, _, _)
check_direction_loop_no_take(self, position, offset, color, positions) ==
    LET next == Add(position, offset)
    IN  IF ~next.ok THEN positions
        ELSE IF self[next.val] = None
        THEN check_direction_loop_no_take(self, next.val, offset, color,
                                          Append(positions, next.val))
        ELSE positions

\* The loop of check_direction, from `position` with `positions` pushed so far.
RECURSIVE check_direction_loop(_, _, _, _, _)
check_direction_loop(self, position, offset, color, positions) ==
    LET next == Add(position, offset)
    IN  IF ~next.ok THEN positions
        ELSE IF self[next.val] = None
        THEN check_direction_loop(self, next.val, offset, color,
                                  Append(positions, next.val))
        ELSE IF Unwrap(self[next.val]).color = color THEN positions
        ELSE Append(positions, next.val)

\* check_direction with the starting square already among the positions.
check_direction_keeps_start(self, position, direction, color) ==
    check_direction_loop(self, position, DirectionOffset(direction), color,
                         << position >>)

check_direction(self, position, direction, color) ==
    check_direction_loop(self, position, DirectionOffset(direction), color, << >>)

\* The walk of the loop of check_direction: how many times `position` is
\* advanced, the last square reached, and whether the loop ends by `break`
\* (position + offset fails) or by `return` at an occupied square.
RECURSIVE check_direction_walk(_, _, _, _)
check_direction_walk(self, position, offset, steps) ==
    LET next == Add(position, offset)
    IN  IF ~next.ok THEN [steps |-> steps, last |-> position, edge |-> TRUE]
        ELSE IF self[next.val] = None
        THEN check_direction_walk(self, next.val, offset, steps + 1)
        ELSE [steps |-> steps + 1, last |-> next.val, edge |-> FALSE]

\* Board::check_directions: the rays appended in the order of `directions`.
RECURSIVE check_directions(_, _, _, _)
check_directions(self, position, directions, color) ==
    IF directions = << >> THEN << >>
    ELSE check_direction(self, position, Head(directions), color)
         \o check_directions(self, position, Tail(directions), color)

\* One `if let Ok(position) = position + offset { if check_position(..) push }`.
Candidate(self, position, offset, color, can_take, must_take) ==
    LET dest == Add(position, offset)
    IN  IF dest.ok /\ check_position(self, dest.val, color, can_take, must_take)
        THEN << dest.val >>
        ELSE << >>

\* check_pawn whose single forward step may capture.
check_pawn_takes_ahead(self, position, color, moved) ==
    (IF ~moved
     THEN Candidate(self, position, Off(0, 2 * ColorAsI8(color)), color, FALSE, FALSE)
     ELSE << >>)
    \o Candidate(self, position, Off(0, ColorAsI8(color)), color, TRUE, FALSE)
    \o Candidate(self, position, Off(1, ColorAsI8(color)), color, TRUE, TRUE)
    \o Candidate(self, position, Off(-1, ColorAsI8(color)), color, TRUE, TRUE)

\* check_pawn without the double step.
check_pawn_no_double(self, position, color, moved) ==
    Candidate(self, position, Off(0, ColorAsI8(color)), color, FALSE, FALSE)
    \o Candidate(self, position, Off(1, ColorAsI8(color)), color, TRUE, TRUE)
    \o Candidate(self, position, Off(-1, ColorAsI8(color)), color, TRUE, TRUE)

\* check_pawn trying the double step whatever the moved flag.
check_pawn_always_double(self, position, color, moved) ==
    Candidate(self, position, Off(0, 2 * ColorAsI8(color)), color, FALSE, FALSE)
    \o Candidate(self, position, Off(0, ColorAsI8(color)), color, FALSE, FALSE)
    \o Candidate(self, position, Off(1, ColorAsI8(color)), color, TRUE, TRUE)
    \o Candidate(self, position, Off(-1, ColorAsI8(color)), color, TRUE, TRUE)

\* Board::check_pawn.
check_pawn(self, position, color, moved) ==
    (IF ~moved
     THEN Candidate(self, position, Off(0, 2 * ColorAsI8(color)), color, FALSE, FALSE)
     ELSE << >>)
    \o Candidate(self, position, Off(0, ColorAsI8(color)), color, FALSE, FALSE)
    \o Candidate(self, position, Off(1, ColorAsI8(color)), color, TRUE, TRUE)
    \o Candidate(self, position, Off(-1, ColorAsI8(color)), color, TRUE, TRUE)

KnightOffsets ==
    << Off(2, 1), Off(-2, 1), Off(-2, -1), Off(2, -1),
       Off(1, 2), Off(-1, 2), Off(-1, -2), Off(1, -2) >>

KingOffsets ==
    << Off(1, 1), Off(-1, 1), Off(-1, -1), Off(1, -1),
       Off(1, 0), Off(-1, 0), Off(0, -1), Off(0, 1) >>

\* The offsets loop entering empty squares only.
RECURSIVE check_offsets_no_take(_, _, _, _)
check_offsets_no_take(self, position, offsets, color) ==
    IF offsets = << >> THEN << >>
    ELSE Candidate(self, position, Head(offsets), color, FALSE, FALSE)
         \o check_offsets_no_take(self, position, Tail(offsets), color)

\* The `for offset in offsets` loop shared by check_knight and check_king.
RECURSIVE check_offsets(_, _, _, _)
check_offsets(self, position, offsets, color) ==
    IF offsets = << >> THEN << >>
    ELSE Candidate(self, position, Head(offsets), color, TRUE, FALSE)
         \o check_offsets(self, position, Tail(offsets), color)

check_knight(self, position, color) ==
    check_offsets(self, position, KnightOffsets, color)

check_king(self, position, color) ==
    check_offsets(self, position, KingOffsets, color)

BishopDirections == << "NE", "SE", "SW", "NW" >>

RookDirections == << "N", "E", "S", "W" >>

\* The queen's directions with N written where NW belongs.
QueenDirections_repeated == << "N", "NE", "E", "SE", "S", "SW", "W", "N" >>

QueenDirections == << "N", "NE", "E", "SE", "S", "SW", "W", "NW" >>

\* check_positions answering an empty square with an empty list.
check_positions_empty_ok(self, position) ==
    IF self[position] = None THEN Ok(<< >>)
    ELSE LET piece == Unwrap(self[position])
         IN  Ok(CASE piece.piece_type = "Pawn" ->
                     check_pawn(self, position, piece.color, piece.moved)
               [] piece.piece_type = "Knight" ->
                     check_knight(self, position, piece.color)
               [] piece.piece_type = "Bishop" ->
                     check_directions(self, position, BishopDirections, piece.color)
               [] piece.piece_type = "Rook" ->
                     check_directions(self, position, RookDirections, piece.color)
               [] piece.piece_type = "Queen" ->
                     check_directions(self, position, QueenDirections, piece.color)
               [] piece.piece_type = "King" ->
                     check_king(self, position, piece.color))

\* Board::check_positions.
check_positions(self, position) ==
    IF self[position] = None THEN Err(NotFound(position))
    ELSE LET piece == Unwrap(self[position])
         IN  Ok(CASE piece.piece_type = "Pawn" ->
                     check_pawn(self, position, piece.color, piece.moved)
               [] piece.piece_type = "Knight" ->
                     check_knight(self, position, piece.color)
               [] piece.piece_type = "Bishop" ->
                     check_directions(self, position, BishopDirections, piece.color)
               [] piece.piece_type = "Rook" ->
                     check_directions(self, position, RookDirections, piece.color)
               [] piece.piece_type = "Queen" ->
                     check_directions(self, position, QueenDirections, piece.color)
               [] piece.piece_type = "King" ->
                     check_king(self, position, piece.color))

\* ------------------------------------------------------------------- state

VARIABLES
    board,    \* the Board the caller owns
    before,   \* the board as it was when the last call was made
    op,       \* the last call: "new", "move_piece", "take_piece", "check_positions"
              \* ("earlier" on a board of InitAny, built by calls not recorded)
    args,     \* the last call's arguments, a sequence of Positions
    result,   \* what the last call returned
    calls     \* number of calls made since construction

vars == << board, before, op, args, result, calls >>

\* Squares the caller passes to move_piece and take_piece.
CallSquares ==
    { Pos(0, 0), Pos(0, 7), Pos(3, 0), Pos(1, 3), Pos(3, 2),
      Pos(4, 1), Pos(4, 3), Pos(5, 5), Pos(5, 6), Pos(5, 4), Pos(3, 7) }

Init ==
    /\ board = Board_new
    /\ before = Board_new
    /\ op = "new"
    /\ args = << >>
    /\ result = Ok(Unit)
    /\ calls = 0

MovePiece(from_position, to_position) ==
    /\ calls < MaxCalls
    /\ LET r == move_piece(board, from_position, to_position)
       IN  /\ board' = r.board
           /\ result' = r.result
    /\ before' = board
    /\ op' = "move_piece"
    /\ args' = << from_position, to_position >>
    /\ calls' = calls + 1

TakePiece(position) ==
    /\ calls < MaxCalls
    /\ LET r == take_piece(board, position)
       IN  /\ board' = r.board
           /\ result' = r.result
    /\ before' = board
    /\ op' = "take_piece"
    /\ args' = << position >>
    /\ calls' = calls + 1

\* check_positions written as a method that marks the piece it looks at.
CheckPositions_marks(position) ==
    /\ calls < MaxCalls
    /\ result' = check_positions(board, position)
    /\ board' = IF board[position] = None THEN board
                ELSE [board EXCEPT ![position] =
                        Some([Unwrap(board[position]) EXCEPT !.moved = TRUE])]
    /\ before' = board
    /\ op' = "check_positions"
    /\ args' = << position >>
    /\ calls' = calls + 1

CheckPositions(position) ==
    /\ calls < MaxCalls
    /\ result' = check_positions(board, position)
    /\ before' = board
    /\ op' = "check_positions"
    /\ args' = << position >>
    /\ calls' = calls + 1
    /\ UNCHANGED board

Next ==
    \/ \E from_position \in CallSquares, to_position \in CallSquares :
          MovePiece(from_position, to_position)
    \/ \E position \in CallSquares : TakePiece(position)
    \/ \E position \in Position : CheckPositions(position)

Spec == Init /\ [][Next]_vars

\* --------------------------------------------------- boards given up front

\* Squares on which the piece under examination stands: two corners, the
\* centre, an edge, a White and a Black pawn home square.
SubjectSquares ==
    { Pos(0, 0), Pos(7, 7), Pos(3, 3), Pos(7, 4), Pos(4, 1), Pos(4, 6) }

\* A piece that can stand on `position` after some calls from Board::new():
\* an unmoved piece still stands on a square the layout gave to its kind.
CanStand(piece, position) ==
    piece.moved \/ DEFAULT_BOARD[position] = Some(Piece_new(piece.color, piece.piece_type))

\* The elements of a Vec.
RECURSIVE SeqToSet(_)
SeqToSet(seq) ==
    IF seq = << >> THEN {} ELSE {Head(seq)} \cup SeqToSet(Tail(seq))

\* Offsets of the squares a generator reads within two steps of the piece.
RayOffsets(directions) ==
    { Off(k * DirectionOffset(d).x, k * DirectionOffset(d).y) :
        d \in SeqToSet(directions), k \in 1 .. 2 }

ReadOffsets(piece) ==
    CASE piece.piece_type = "Pawn" ->
            { Off(0, ColorAsI8(piece.color)), Off(0, 2 * ColorAsI8(piece.color)),
              Off(1, ColorAsI8(piece.color)), Off(-1, ColorAsI8(piece.color)) }
      [] piece.piece_type = "Knight" -> SeqToSet(KnightOffsets)
      [] piece.piece_type = "King" -> SeqToSet(KingOffsets)
      [] piece.piece_type = "Bishop" -> RayOffsets(BishopDirections)
      [] piece.piece_type = "Rook" -> RayOffsets(RookDirections)
      [] piece.piece_type = "Queen" -> RayOffsets(QueenDirections)

\* The squares near the piece on which a blocker may stand: those its generator
\* reads within two steps, and the eight adjacent squares.
NearSquares(piece, position) ==
    { Add(position, o).val :
        o \in { o \in ReadOffsets(piece) \cup SeqToSet(KingOffsets) : Add(position, o).ok } }

\* The subsets of S with at most k elements.
RECURSIVE SubsetsUpTo(_, _)
SubsetsUpTo(S, k) ==
    IF k = 0 THEN { {} }
    ELSE LET smaller == SubsetsUpTo(S, k - 1)
         IN  smaller \cup { T \cup {x} : T \in smaller, x \in S }

\* Blocking pieces are pawns that have moved: such a pawn can stand anywhere.
Blocker(color) == [color |-> color, piece_type |-> "Pawn", moved |-> TRUE]

\* The board with `piece` on `position` and a blocker of colour colors[q] on
\* every q in the domain of `colors`.
BoardWith(piece, position, colors) ==
    [q \in Position |->
        IF q = position THEN Some(piece)
        ELSE IF q \in DOMAIN colors THEN Some(Blocker(colors[q]))
        ELSE None]

\* A board reached by earlier calls, on which one further call is made.
InitAny ==
    /\ \E position \in SubjectSquares :
         \E piece \in { pc \in Piece : CanStand(pc, position) } :
           \E S \in SubsetsUpTo(NearSquares(piece, position), MaxBlockers) :
             \E colors \in [S -> Color] :
               board = BoardWith(piece, position, colors)
    /\ before = board
    /\ op = "earlier"
    /\ args = << >>
    /\ result = Ok(Unit)
    /\ calls = MaxCalls - 1

NextAny == \E position \in SubjectSquares : CheckPositions(position)

SpecAny == InitAny /\ [][NextAny]_vars

\* ------------------------------------------------------------ coordinates

\* The integers a caller passes to the constructors: u8 for Position::new, i8
\* for Offset::new.
Coords == 0 .. MaxCoord

SignedCoords == -MaxCoord .. MaxCoord

PositionNew(x, y) ==
    /\ calls < MaxCalls
    /\ result' = Position_new(x, y)
    /\ op' = "Position::new"
    /\ args' = << x, y >>
    /\ calls' = calls + 1
    /\ UNCHANGED << board, before >>

OffsetNew(x, y) ==
    /\ calls < MaxCalls
    /\ result' = Offset_new(x, y)
    /\ op' = "Offset::new"
    /\ args' = << x, y >>
    /\ calls' = calls + 1
    /\ UNCHANGED << board, before >>

\* position + offset, both built by their constructors.
AddOffset(x, y, dx, dy) ==
    /\ calls < MaxCalls
    /\ Position_new(x, y).ok
    /\ Offset_new(dx, dy).ok
    /\ result' = Add(Position_new(x, y).val, Offset_new(dx, dy).val)
    /\ op' = "add"
    /\ args' = << Position_new(x, y).val, Offset_new(dx, dy).val >>
    /\ calls' = calls + 1
    /\ UNCHANGED << board, before >>

InitCoord ==
    /\ board = Board_new
    /\ before = Board_new
    /\ op = "new"
    /\ args = << >>
    /\ result = Ok(Unit)
    /\ calls = MaxCalls - 1

\* Each action's guard is tested once more here, before its inputs are drawn.
PositionNewCalls ==
    calls < MaxCalls /\ \E x \in Coords, y \in Coords : PositionNew(x, y)

OffsetNewCalls ==
    calls < MaxCalls /\ \E x \in SignedCoords, y \in SignedCoords : OffsetNew(x, y)

AddOffsetCalls ==
    /\ calls < MaxCalls
    /\ \E x \in Coords, y \in Coords, dx \in SignedCoords, dy \in SignedCoords :
          AddOffset(x, y, dx, dy)

NextCoord == PositionNewCalls \/ OffsetNewCalls \/ AddOffsetCalls

SpecCoord == InitCoord /\ [][NextCoord]_vars

\* ---------------------------------------------------------- check_position

\* One call of the private helper check_position, as the generators make it.
CheckPosition(position, color, can_take, must_take) ==
    /\ calls < MaxCalls
    /\ result' = Ok(check_position(board, position, color, can_take, must_take))
    /\ before' = board
    /\ op' = "check_position"
    /\ args' = << position, color, can_take, must_take >>
    /\ calls' = calls + 1
    /\ UNCHANGED board

\* The fresh board after one move_piece call, successful or not.
InitCell ==
    /\ \E from_position \in CallSquares, to_position \in CallSquares :
          board = move_piece(Board_new, from_position, to_position).board
    /\ before = board
    /\ op = "earlier"
    /\ args = << >>
    /\ result = Ok(Unit)
    /\ calls = MaxCalls - 1

NextCell ==
    \E position \in Position, color \in Color,
       can_take \in BOOLEAN, must_take \in BOOLEAN :
          CheckPosition(position, color, can_take, must_take)

SpecCell == InitCell /\ [][NextCell]_vars

\* ------------------------------------- the capture-by-overwrite revision

\* struct PieceNotFound { position } of the revision.
PieceNotFound(position) == [kind |-> "PieceNotFound", position |-> position]

\* Board::move_piece of the revision that captures by overwriting: the
\* destination is cleared first, then the source is looked at.
capturing_move_piece(self, from_position, to_position) ==
    LET b0 == [self EXCEPT ![to_position] = None]
    IN  IF b0[from_position] = None
        THEN [board |-> b0, result |-> Err(PieceNotFound(from_position))]
        ELSE LET piece == [Unwrap(b0[from_position]) EXCEPT !.moved = TRUE]
                 b1 == [b0 EXCEPT ![from_position] = Some(piece)]
                 b2 == [b1 EXCEPT ![to_position] = b1[from_position]]
                 b3 == [b2 EXCEPT ![from_position] = None]
             IN  [board |-> b3, result |-> Ok(Unit)]

\* Squares the caller passes to the revision's move_piece.
CapturingSquares ==
    { Pos(0, 0), Pos(3, 0), Pos(4, 1), Pos(1, 3), Pos(3, 2), Pos(0, 7) }

CapturingMovePiece(from_position, to_position) ==
    /\ calls < MaxCalls
    /\ LET r == capturing_move_piece(board, from_position, to_position)
       IN  /\ board' = r.board
           /\ result' = r.result
    /\ before' = board
    /\ op' = "move_piece"
    /\ args' = << from_position, to_position >>
    /\ calls' = calls + 1

NextCapturing ==
    \E from_position \in CapturingSquares, to_position \in CapturingSquares :
        CapturingMovePiece(from_position, to_position)

SpecCapturing == Init /\ [][NextCapturing]_vars

\* ------------------------------------------------------------ execute_move

\* action::Move, action::Take, action::Promote and the enum ChessMove.
Movement(from_position, to_position) ==
    [from_position |-> from_position, to_position |-> to_position]

MoveOf(movement) == [kind |-> "Move", movement |-> movement]

MoveWithTake(movement, take) ==
    [kind |-> "MoveWithTake", movement |-> movement, take |-> take]

Castle(movement_1, movement_2) ==
    [kind |-> "Castle", movement_1 |-> movement_1, movement_2 |-> movement_2]

Promote(movement, promotion) ==
    [kind |-> "Promote", movement |-> movement, promotion |-> promotion]

\* PromotePiece::promote_piece as its declaration documents it: NotFound for an
\* empty cell, otherwise the piece on the cell takes the given type.
promote_piece(self, position, piece_type) ==
    IF self[position] = None
    THEN [board |-> self, result |-> Err(NotFound(position))]
    ELSE [board  |-> [self EXCEPT ![position] =
                        Some([Unwrap(self[position]) EXCEPT !.piece_type = piece_type])],
          result |-> Ok(Unit)]

\* execute_move moving first and taking afterwards.
execute_move_move_first(self, chess_move) ==
    CASE chess_move.kind = "Move" ->
            move_piece(self, chess_move.movement.from_position,
                       chess_move.movement.to_position)
      [] chess_move.kind = "MoveWithTake" ->
            LET r1 == move_piece(self, chess_move.movement.from_position,
                                 chess_move.movement.to_position)
            IN  IF ~r1.result.ok THEN r1
                ELSE take_piece(r1.board, chess_move.take.position)
      [] chess_move.kind = "Castle" ->
            LET r1 == move_piece(self, chess_move.movement_1.from_position,
                                 chess_move.movement_1.to_position)
            IN  IF ~r1.result.ok THEN r1
                ELSE move_piece(r1.board, chess_move.movement_2.from_position,
                                chess_move.movement_2.to_position)
      [] chess_move.kind = "Promote" ->
            LET r1 == move_piece(self, chess_move.movement.from_position,
                                 chess_move.movement.to_position)
            IN  IF ~r1.result.ok THEN r1
                ELSE promote_piece(r1.board, chess_move.promotion.position,
                                   chess_move.promotion.piece_type)

\* The derived ExecuteMove::execute_move: each step ends the call with its
\* error (the `?`), the board staying as the steps before it left it.
execute_move(self, chess_move) ==
    CASE chess_move.kind = "Move" ->
            move_piece(self, chess_move.movement.from_position,
                       chess_move.movement.to_position)
      [] chess_move.kind = "MoveWithTake" ->
            LET r1 == take_piece(self, chess_move.take.position)
            IN  IF ~r1.result.ok THEN r1
                ELSE move_piece(r1.board, chess_move.movement.from_position,
                                chess_move.movement.to_position)
      [] chess_move.kind = "Castle" ->
            LET r1 == move_piece(self, chess_move.movement_1.from_position,
                                 chess_move.movement_1.to_position)
            IN  IF ~r1.result.ok THEN r1
                ELSE move_piece(r1.board, chess_move.movement_2.from_position,
                                chess_move.movement_2.to_position)
      [] chess_move.kind = "Promote" ->
            LET r1 == move_piece(self, chess_move.movement.from_position,
                                 chess_move.movement.to_position)
            IN  IF ~r1.result.ok THEN r1
                ELSE promote_piece(r1.board, chess_move.promotion.position,
                                   chess_move.promotion.piece_type)

\* Squares named in the moves handed to execute_move, and the types promoted to.
ExecSquares == { Pos(0, 0), Pos(4, 1), Pos(4, 3), Pos(5, 6), Pos(5, 4) }

PromotionTypes == { "Queen", "Knight" }

Movements == { Movement(f, t) : f \in ExecSquares, t \in ExecSquares }

ExecuteMove(chess_move) ==
    /\ calls < MaxCalls
    /\ LET r == execute_move(board, chess_move)
       IN  /\ board' = r.board
           /\ result' = r.result
    /\ before' = board
    /\ op' = "execute_move"
    /\ args' = << chess_move >>
    /\ calls' = calls + 1

ExecuteMoveCalls ==
    /\ calls < MaxCalls
    /\ \/ \E m \in Movements : ExecuteMove(MoveOf(m))
       \/ \E m \in Movements, p \in ExecSquares :
             ExecuteMove(MoveWithTake(m, [position |-> p]))
       \/ \E m1 \in Movements, m2 \in Movements : ExecuteMove(Castle(m1, m2))
       \/ \E m \in Movements, p \in ExecSquares, t \in PromotionTypes :
             ExecuteMove(Promote(m, [position |-> p, piece_type |-> t]))

\* The board execute_move is called on: the fresh board after one move_piece.
InitExec ==
    /\ \E from_position \in ExecSquares, to_position \in ExecSquares :
          board = move_piece(Board_new, from_position, to_position).board
    /\ before = board
    /\ op = "earlier"
    /\ args = << >>
    /\ result = Ok(Unit)
    /\ calls = MaxCalls - 1

NextExec == ExecuteMoveCalls

SpecExec == InitExec /\ [][NextExec]_vars

\* ------------------------------------------------- a capture in two calls

\* The square of the piece that moves, and the squares next to it and beyond
\* on which another piece may stand or to which one may be moved.
PlaySubject == Pos(3, 3)

PlayBlockerSquares == { Pos(3, 4), Pos(4, 4) }

PlaySquares == { PlaySubject, Pos(3, 4), Pos(4, 4), Pos(3, 5) }

\* A board reached by earlier calls: a moved piece on PlaySubject and moved
\* pawns of either colour on some of PlayBlockerSquares.  Two calls follow.
InitPlay ==
    /\ \E piece \in { pc \in Piece : pc.moved } :
         \E S \in SUBSET PlayBlockerSquares :
           \E colors \in [S -> Color] :
             board = BoardWith(piece, PlaySubject, colors)
    /\ before = board
    /\ op = "earlier"
    /\ args = << >>
    /\ result = Ok(Unit)
    /\ calls = MaxCalls - 2

NextPlay ==
    \/ \E from_position \in PlaySquares, to_position \in PlaySquares :
          MovePiece(from_position, to_position)
    \/ \E position \in PlaySquares : TakePiece(position)

SpecPlay == InitPlay /\ [][NextPlay]_vars

\* ------------------------------------------------------------------ claims

\* The squares of a returned Vec, and the geometry the claims speak of.
Returned == SeqToSet(result.val)

OnBoard(x, y) == x \in 0 .. BoardSize - 1 /\ y \in 0 .. BoardSize - 1

Shift(p, d, k) == Pos(p.x + k * d[1], p.y + k * d[2])

Holds(b, q, color) == b[q] # None /\ Unwrap(b[q]).color = color

Opposite(color) == IF color = "White" THEN "Black" ELSE "White"

Enterable(b, q, color) == b[q] = None \/ Holds(b, q, Opposite(color))

Units == { d \in (-1 .. 1) \X (-1 .. 1) : d # << 0, 0 >> }

Diagonals == { d \in Units : d[1] # 0 /\ d[2] # 0 }

Orthogonals == Units \ Diagonals

Slides(piece_type) ==
    CASE piece_type = "Bishop" -> Diagonals
      [] piece_type = "Rook" -> Orthogonals
      [] piece_type = "Queen" -> Units

\* The squares of the ray from p along d up to the first occupied square: every
\* square before it, and that square when a piece of the other colour holds it.
RayReach(b, p, d, color) ==
    { Shift(p, d, k) :
        k \in { k \in 1 .. BoardSize - 1 :
                  /\ OnBoard(p.x + k * d[1], p.y + k * d[2])
                  /\ \A j \in 1 .. k - 1 : b[Shift(p, d, j)] = None
                  /\ Enterable(b, Shift(p, d, k), color) } }

\* The squares on the line from p along d.
Line(p, d) ==
    { Shift(p, d, k) :
        k \in { k \in 1 .. BoardSize - 1 : OnBoard(p.x + k * d[1], p.y + k * d[2]) } }

CheckedPiece(kinds) ==
    /\ op = "check_positions"
    /\ before[args[1]] # None
    /\ Unwrap(before[args[1]]).piece_type \in kinds

\* C1: for a bishop, rook or queen, check_positions returns, along each of the
\* piece's directions, exactly the empty squares up to the first occupied square
\* or the edge, plus that first occupied square iff an enemy piece holds it, and
\* nothing off those rays.
C1_SlidingExact ==
    CheckedPiece({"Bishop", "Rook", "Queen"}) =>
        LET p == args[1]
            piece == Unwrap(before[p])
        IN  /\ result.ok
            /\ \A d \in Slides(piece.piece_type) :
                 Returned \cap Line(p, d) = RayReach(before, p, d, piece.color)
            /\ Returned \subseteq UNION { Line(p, d) : d \in Slides(piece.piece_type) }

\* A ray whose first occupied square holds an enemy piece with a further piece
\* right behind it: the first is returned, the second is not.
C1_Witness ==
    /\ CheckedPiece({"Bishop", "Rook", "Queen"})
    /\ LET p == args[1]
           piece == Unwrap(before[p])
       IN  \E d \in Slides(piece.piece_type) :
             /\ OnBoard(p.x + 2 * d[1], p.y + 2 * d[2])
             /\ Holds(before, Shift(p, d, 1), Opposite(piece.color))
             /\ before[Shift(p, d, 2)] # None
             /\ Shift(p, d, 1) \in Returned
             /\ Shift(p, d, 2) \notin Returned

KnightJumps == { d \in (-2 .. 2) \X (-2 .. 2) : d[1] * d[1] + d[2] * d[2] = 5 }

Jumps(piece_type) == IF piece_type = "Knight" THEN KnightJumps ELSE Units

JumpReach(b, p, color, jumps) ==
    { Shift(p, d, 1) :
        d \in { d \in jumps : /\ OnBoard(p.x + d[1], p.y + d[2])
                              /\ Enterable(b, Shift(p, d, 1), color) } }

\* C2: for a knight or king the returned squares are exactly the squares at one
\* of the piece's eight offsets that are on the board and empty or enemy-held;
\* there are at most eight of them.
C2_JumpExact ==
    CheckedPiece({"Knight", "King"}) =>
        LET p == args[1]
            piece == Unwrap(before[p])
        IN  /\ result.ok
            /\ Returned = JumpReach(before, p, piece.color, Jumps(piece.piece_type))
            /\ Len(result.val) <= 8

\* The squares a pawn of `color` standing on q attacks.
PawnAttacks(q, color) ==
    { Shift(q, << dx, ColorAsI8(color) >>, 1) :
        dx \in { dx \in {-1, 1} : OnBoard(q.x + dx, q.y + ColorAsI8(color)) } }

\* A king is given a square that an enemy pawn attacks, a friendly-held
\* neighbour is left out, and an offset falls off the board.
C2_Witness ==
    /\ CheckedPiece({"King"})
    /\ LET p == args[1]
           piece == Unwrap(before[p])
       IN  /\ \E q \in Position :
                /\ Holds(before, q, Opposite(piece.color))
                /\ Unwrap(before[q]).piece_type = "Pawn"
                /\ PawnAttacks(q, Opposite(piece.color)) \cap Returned # {}
           /\ \E d \in Units : ~OnBoard(p.x + d[1], p.y + d[2])
           /\ \E d \in Units :
                /\ OnBoard(p.x + d[1], p.y + d[2])
                /\ Holds(before, Shift(p, d, 1), piece.color)

PawnReach(b, p, color, moved) ==
    LET s == ColorAsI8(color)
    IN  { q \in Position :
            \/ q = Pos(p.x, p.y + s) /\ b[q] = None
            \/ q = Pos(p.x, p.y + 2 * s) /\ ~moved /\ b[q] = None
            \/ q = Pos(p.x + 1, p.y + s) /\ Holds(b, q, Opposite(color))
            \/ q = Pos(p.x - 1, p.y + s) /\ Holds(b, q, Opposite(color)) }

\* C3: for a pawn the returned squares are exactly: the square one rank ahead
\* iff empty; the square two ranks ahead iff the pawn has not moved and that
\* square is empty, whatever stands between; each forward diagonal iff an enemy
\* piece holds it.  An enemy piece straight ahead is never returned.
C3_PawnExact ==
    CheckedPiece({"Pawn"}) =>
        LET p == args[1]
            piece == Unwrap(before[p])
        IN  /\ result.ok
            /\ Returned = PawnReach(before, p, piece.color, piece.moved)
            /\ \A q \in Returned : q.x = p.x => before[q] = None

\* An unmoved pawn with an enemy piece straight ahead, the square behind that
\* piece empty, and an enemy piece on a forward diagonal.
C3_Witness ==
    /\ CheckedPiece({"Pawn"})
    /\ LET p == args[1]
           piece == Unwrap(before[p])
           s == ColorAsI8(piece.color)
       IN  /\ ~piece.moved
           /\ Holds(before, Pos(p.x, p.y + s), Opposite(piece.color))
           /\ Pos(p.x, p.y + s) \notin Returned
           /\ Pos(p.x, p.y + 2 * s) \in Returned
           /\ \E dx \in {-1, 1} :
                /\ Holds(before, Pos(p.x + dx, p.y + s), Opposite(piece.color))
                /\ Pos(p.x + dx, p.y + s) \in Returned

Failed(kinds) == ~result.ok /\ result.err.kind \in kinds

\* C4: when move_piece or take_piece returns an error, the board is cell for
\* cell, moved flags included, the board it was before the call; the error is
\* NotFound or Occupied.
C4_ErrorLeavesBoard ==
    (op \in {"move_piece", "take_piece"} /\ ~result.ok) =>
        /\ \A q \in Position : board[q] = before[q]
        /\ Failed({"NotFound", "Occupied"})

\* A failed move_piece with an empty source and an occupied destination, made
\* after an earlier successful move has set a moved flag.
C4_Witness ==
    /\ op = "move_piece"
    /\ Failed({"Occupied"})
    /\ before[args[1]] = None
    /\ before[args[2]] # None
    /\ \E q \in Position : before[q] # None /\ Unwrap(before[q]).moved

\* C5: move_piece(from, to) returns NotFound(from) whenever `from` holds no
\* piece, for every destination, empty or occupied.
C5_NotFoundWheneverFromEmpty ==
    (op = "move_piece" /\ before[args[1]] = None) =>
        (~result.ok /\ result.err = NotFound(args[1]))

\* C6: move_piece(from, to) onto an occupied `to` leaves the occupant in place
\* and returns Occupied(to, t), t the type of the piece standing on `to`.
C6_OccupiedKeepsOccupant ==
    (op = "move_piece" /\ before[args[2]] # None) =>
        /\ ~result.ok
        /\ result.err = Occupied(args[2], Unwrap(before[args[2]]).piece_type)
        /\ board[args[2]] = before[args[2]]

\* A piece moved onto a piece of another type: the error names the type of the
\* piece on the destination.
C6_Witness ==
    /\ op = "move_piece"
    /\ before[args[1]] # None
    /\ before[args[2]] # None
    /\ Unwrap(before[args[1]]).piece_type # Unwrap(before[args[2]]).piece_type
    /\ Failed({"Occupied"})
    /\ result.err.piece_type = Unwrap(before[args[2]]).piece_type

\* C7: move_piece(from, to) with `from` occupied and `to` empty succeeds; after
\* it `from` is empty and `to` holds a piece of the colour and type of the piece
\* that stood on `from`, with moved = true.
C7_MoveRelocates ==
    (op = "move_piece" /\ (result.ok \/ (before[args[1]] # None /\ before[args[2]] = None))) =>
        /\ result = Ok(Unit)
        /\ before[args[1]] # None
        /\ before[args[2]] = None
        /\ board[args[1]] = None
        /\ board[args[2]] # None
        /\ Unwrap(board[args[2]]).color = Unwrap(before[args[1]]).color
        /\ Unwrap(board[args[2]]).piece_type = Unwrap(before[args[1]]).piece_type
        /\ Unwrap(board[args[2]]).moved = TRUE

\* The first move of the queen from (3, 0) to (5, 5) on a fresh board.
C7_Witness ==
    /\ op = "move_piece"
    /\ args = << Pos(3, 0), Pos(5, 5) >>
    /\ before = Board_new
    /\ result.ok
    /\ board[Pos(5, 5)] = Some([Piece_new("White", "Queen") EXCEPT !.moved = TRUE])

\* C8: a successful move_piece(from, to) changes no cell but `from` and `to`.
C8_MoveFrame ==
    (op = "move_piece" /\ result.ok) =>
        \A q \in Position \ {args[1], args[2]} : board[q] = before[q]

\* A successful move on a board where another piece, not on `from` or `to`,
\* already has its moved flag set; `to` is off the diagonal x = y.
C8_Witness ==
    /\ op = "move_piece"
    /\ result.ok
    /\ args[2].x # args[2].y
    /\ \E q \in Position \ {args[1], args[2]} :
         before[q] # None /\ Unwrap(before[q]).moved /\ board[q] = before[q]

\* C9: take_piece(position) on an occupied cell returns Ok, leaves that cell
\* empty and every other cell unchanged; on an empty cell it returns
\* NotFound(position).
C9_TakePiece ==
    (op = "take_piece") =>
        IF before[args[1]] # None
        THEN /\ result = Ok(Unit)
             /\ board[args[1]] = None
             /\ \A q \in Position \ {args[1]} : board[q] = before[q]
        ELSE /\ ~result.ok
             /\ result.err = NotFound(args[1])

\* A piece taken from the board, and a take_piece on the cell it left empty.
C9_Witness ==
    /\ op = "take_piece"
    /\ ~result.ok
    /\ DEFAULT_BOARD[args[1]] # None
    /\ before[args[1]] = None

\* C10: check_positions(position) returns NotFound(position) iff the cell at
\* `position` is empty, and Ok for an occupied cell whatever the piece type.
C10_CheckPositionsNotFound ==
    (op = "check_positions") =>
        /\ (before[args[1]] = None) <=> ~result.ok
        /\ ~result.ok => result.err = NotFound(args[1])

\* check_positions((3, 2)) on a fresh board fails.
C10_Witness ==
    /\ op = "check_positions"
    /\ args = << Pos(3, 2) >>
    /\ before = Board_new
    /\ ~result.ok

\* C11: the list check_positions returns holds no square twice.
C11_NoDuplicates ==
    (op = "check_positions" /\ result.ok) =>
        Len(result.val) = Cardinality(Returned)

\* A queen alone in the centre: 27 squares on eight rays, each once.
C11_Witness ==
    /\ CheckedPiece({"Queen"})
    /\ Len(result.val) = 27
    /\ Cardinality(Returned) = 27

C13_AddChecked ==
    (op = "add") =>
        LET sx == args[1].x + args[2].x
            sy == args[1].y + args[2].y
        IN  /\ sx \in -128 .. 127 /\ sy \in -128 .. 127
            /\ result.ok <=> OnBoard(sx, sy)
            /\ result.ok => (result.val.x = sx /\ result.val.y = sy)
            /\ ~result.ok => result.err = PositionOutOfBounds(sx, sy)

\* The largest sums, and a sum below zero on one axis only.
C13_Witness ==
    /\ op = "add"
    /\ ~result.ok
    /\ \/ args = << Pos(7, 7), Off(7, 7) >> /\ result.err = PositionOutOfBounds(14, 14)
       \/ args = << Pos(0, 3), Off(-1, 1) >> /\ result.err = PositionOutOfBounds(-1, 4)

\* C14: Position::new(x, y) succeeds iff x < 8 and y < 8, with exactly the
\* components x and y; otherwise it returns PositionOutOfBounds carrying x, y.
C14_PositionNew ==
    (op = "Position::new") =>
        /\ result.ok <=> (args[1] < 8 /\ args[2] < 8)
        /\ result.ok => (result.val.x = args[1] /\ result.val.y = args[2])
        /\ ~result.ok => result.err = PositionOutOfBounds(args[1], args[2])

\* Position::new(8, 1) fails.
C14_Witness ==
    /\ op = "Position::new"
    /\ args = << 8, 1 >>
    /\ ~result.ok

\* C15: Offset::new(x, y) succeeds iff -8 < x < 8 and -8 < y < 8; otherwise it
\* returns OffsetOutOfBounds carrying x and y.
C15_OffsetNew ==
    (op = "Offset::new") =>
        /\ result.ok <=> (-8 < args[1] /\ args[1] < 8 /\ -8 < args[2] /\ args[2] < 8)
        /\ result.ok => (result.val.x = args[1] /\ result.val.y = args[2])
        /\ ~result.ok => result.err = OffsetOutOfBounds(args[1], args[2])

\* Offset::new(4, -8) fails.
C15_Witness ==
    /\ op = "Offset::new"
    /\ args = << 4, -8 >>
    /\ ~result.ok
    /\ result.err = OffsetOutOfBounds(4, -8)

\* One call, as C16 allows it to treat the pieces and their flags.
MovedFlagStep ==
    /\ \A q \in Position :
         board'[q] # None =>
           \/ board'[q] = board[q]
           \/ /\ op' = "move_piece"
              /\ result'.ok
              /\ q = args'[2]
              /\ board[args'[1]] # None
              /\ board'[q] = Some([Unwrap(board[args'[1]]) EXCEPT !.moved = TRUE])
    /\ (/\ op' = "move_piece"
        /\ board[args'[1]] # None
        /\ Unwrap(board[args'[1]]).moved
        /\ board[args'[2]] = None) =>
           (result'.ok /\ Unwrap(board'[args'[2]]).moved)

\* C16: every piece starts with moved = false; a call changes the content of an
\* occupied cell only by a successful move_piece writing the relocated piece,
\* moved = true, on its destination, so a flag is false until its piece is
\* first relocated and true from then on; moving a piece whose flag is already
\* true onto an empty cell succeeds and leaves the flag true.
C16_MovedFlag ==
    /\ \A q \in Position : board[q] # None => ~Unwrap(board[q]).moved
    /\ [][MovedFlagStep]_vars

\* A second successful move of a piece the first call relocated.
C16_Witness ==
    /\ calls = 2
    /\ op = "move_piece"
    /\ result.ok
    /\ Unwrap(before[args[1]]).moved
    /\ Unwrap(board[args[2]]).moved
    /\ \E q \in Position : board[q] # None /\ ~Unwrap(board[q]).moved

HomeRank(color) == IF color = "White" THEN 1 ELSE 6

IsPawn(b, p) == b[p] # None /\ Unwrap(b[p]).piece_type = "Pawn"

\* The squares one and two ranks ahead of the pawn on p are on the board, empty,
\* and both among the squares check_positions gives for p.
BothSteps(b, p) ==
    LET s == ColorAsI8(Unwrap(b[p]).color)
    IN  { Pos(p.x, p.y + s), Pos(p.x, p.y + 2 * s) }
            \subseteq SeqToSet(check_positions(b, p).val)

StepsEmpty(b, p) ==
    LET s == ColorAsI8(Unwrap(b[p]).color)
    IN  /\ OnBoard(p.x, p.y + 2 * s)
        /\ b[Pos(p.x, p.y + s)] = None
        /\ b[Pos(p.x, p.y + 2 * s)] = None

\* C17 as stated: on every board reached from Board::new(), a pawn on its
\* colour's home rank with the two squares ahead empty is given both.
C17_HomeRankDoubleStep ==
    \A p \in Position :
        (/\ IsPawn(board, p)
         /\ p.y = HomeRank(Unwrap(board[p]).color)
         /\ StepsEmpty(board, p)) => BothSteps(board, p)

\* C17 amended: on every board reached from Board::new(), a pawn on its
\* colour's home rank whose moved flag is false, with the two squares ahead
\* empty, is given both.
C17_UnmovedDoubleStep ==
    \A p \in Position :
        (/\ IsPawn(board, p)
         /\ p.y = HomeRank(Unwrap(board[p]).color)
         /\ ~Unwrap(board[p]).moved
         /\ StepsEmpty(board, p)) => BothSteps(board, p)

\* After two calls that changed the board, check_positions on an unmoved pawn
\* of the home rank returned both squares ahead.
C17_Witness ==
    /\ op = "check_positions"
    /\ before # Board_new
    /\ IsPawn(before, args[1])
    /\ ~Unwrap(before[args[1]]).moved
    /\ args[1].y = HomeRank(Unwrap(before[args[1]]).color)
    /\ StepsEmpty(before, args[1])
    /\ Returned = { Pos(args[1].x, args[1].y + ColorAsI8(Unwrap(before[args[1]]).color)),
                    Pos(args[1].x, args[1].y + 2 * ColorAsI8(Unwrap(before[args[1]]).color)) }

\* C18: a pawn that a successful move_piece has relocated carries moved = true,
\* and for a pawn with moved = true check_positions returns no square of the
\* pawn's file but the single step: never the square two ranks ahead.
C18_MovedPawnSingleStep ==
    /\ (op = "move_piece" /\ result.ok /\ IsPawn(board, args[2])) =>
           Unwrap(board[args[2]]).moved
    /\ \A p \in Position :
         (IsPawn(board, p) /\ Unwrap(board[p]).moved) =>
            \A q \in SeqToSet(check_positions(board, p).val) :
               q.x = p.x => q = Pos(p.x, p.y + ColorAsI8(Unwrap(board[p]).color))

\* The Black pawn moved from (5, 6) to (5, 4), then the White pawn from (4, 1)
\* to (4, 3): its squares are (4, 4) and the capture (5, 4), with (4, 5) empty.
C18_Witness ==
    /\ op = "move_piece"
    /\ result.ok
    /\ args = << Pos(4, 1), Pos(4, 3) >>
    /\ IsPawn(board, Pos(5, 4))
    /\ board[Pos(4, 5)] = None
    /\ SeqToSet(check_positions(board, Pos(4, 3)).val) = { Pos(4, 4), Pos(5, 4) }

\* The starting board after the queen of `color` went from `home` to (1, 3).
QueenMovedTo13(b, home, color) ==
    /\ b[Pos(1, 3)] = Some([Piece_new(color, "Queen") EXCEPT !.moved = TRUE])
    /\ b[home] = None
    /\ \A q \in Position \ {home, Pos(1, 3)} : b[q] = Board_new[q]

Scenario2Squares ==
    { Pos(0, 3), Pos(2, 3), Pos(3, 3), Pos(4, 3), Pos(5, 3), Pos(6, 3), Pos(7, 3),
      Pos(1, 1), Pos(1, 2), Pos(1, 4), Pos(1, 5),
      Pos(0, 2), Pos(2, 4), Pos(3, 5),
      Pos(0, 4), Pos(2, 2), Pos(3, 1) }

\* C19 as stated: with the White queen moved from (3, 0) to (1, 3) on a fresh
\* board, check_positions((1, 3)) returns exactly the seventeen listed squares.
C19_WhiteQueenAt13 ==
    (/\ op = "check_positions"
     /\ args = << Pos(1, 3) >>
     /\ QueenMovedTo13(before, Pos(3, 0), "White")) =>
        (result.ok /\ Returned = Scenario2Squares)

\* C19 amended: with the Black queen moved from (3, 7) to (1, 3) on a fresh
\* board, check_positions((1, 3)) returns exactly the seventeen listed squares.
C19_BlackQueenAt13 ==
    (/\ op = "check_positions"
     /\ args = << Pos(1, 3) >>
     /\ QueenMovedTo13(before, Pos(3, 7), "Black")) =>
        (result.ok /\ Returned = Scenario2Squares)

\* The call on the Black queen, which takes the White pawn on (1, 1).
C19_Witness ==
    /\ op = "check_positions"
    /\ args = << Pos(1, 3) >>
    /\ QueenMovedTo13(before, Pos(3, 7), "Black")
    /\ result.ok
    /\ Pos(1, 1) \in Returned
    /\ Len(result.val) = 17

\* C20: on the board Board::new() returns, check_positions gives no square for
\* any rook, bishop, queen or king, and for every pawn exactly the squares one
\* and two ranks ahead.
C20_FreshBoard ==
    (op = "check_positions" /\ before = Board_new /\ before[args[1]] # None) =>
        LET p == args[1]
            piece == Unwrap(before[p])
            s == IF piece.color = "White" THEN 1 ELSE -1
        IN  /\ piece.piece_type \in {"Rook", "Bishop", "Queen", "King"} =>
                 result = Ok(<< >>)
            /\ piece.piece_type = "Pawn" =>
                 /\ result.ok
                 /\ Len(result.val) = 2
                 /\ Returned = { Pos(p.x, p.y + s), Pos(p.x, p.y + 2 * s) }

\* The pawn on (4, 1) of the fresh board gets (4, 2) and (4, 3).
C20_Witness ==
    /\ op = "check_positions"
    /\ calls = 1
    /\ before = Board_new
    /\ args = << Pos(4, 1) >>
    /\ Returned = { Pos(4, 2), Pos(4, 3) }

\* The standard back rank, file by file.
StandardRank(x) ==
    CASE x \in {0, 7} -> "Rook"
      [] x \in {1, 6} -> "Knight"
      [] x \in {2, 5} -> "Bishop"
      [] x = 3 -> "Queen"
      [] x = 4 -> "King"

Unmoved(color, piece_type) ==
    Some([color |-> color, piece_type |-> piece_type, moved |-> FALSE])

\* C21: Board::new() returns the standard starting position: White back rank
\* on y = 0, White pawns on y = 1, Black pawns on y = 6, Black back rank on
\* y = 7, files Rook, Knight, Bishop, Queen, King, Bishop, Knight, Rook, ranks
\* 2..5 empty, every piece with moved = false.
C21_StartingPosition ==
    (op = "new") =>
        \A p \in Position :
            /\ p.y = 0 => board[p] = Unmoved("White", StandardRank(p.x))
            /\ p.y = 1 => board[p] = Unmoved("White", "Pawn")
            /\ p.y \in 2 .. 5 => board[p] = None
            /\ p.y = 6 => board[p] = Unmoved("Black", "Pawn")
            /\ p.y = 7 => board[p] = Unmoved("Black", StandardRank(p.x))

\* The board right after construction: 32 pieces, the queens on file 3.
C21_Witness ==
    /\ op = "new"
    /\ calls = 0
    /\ Cardinality({ p \in Position : board[p] # None }) = 32
    /\ board[Pos(3, 0)] = Unmoved("White", "Queen")
    /\ board[Pos(3, 7)] = Unmoved("Black", "Queen")

\* The scan from p along `direction` visits q: q lies k steps from p and every
\* square in between is empty.
Visits(b, p, direction, q) ==
    LET o == DirectionOffset(direction)
    IN  \E k \in 1 .. BoardSize - 1 :
          /\ q = Pos(p.x + k * o.x, p.y + k * o.y)
          /\ \A j \in 1 .. k - 1 : b[Pos(p.x + j * o.x, p.y + j * o.y)] = None

\* C22: check_position(destination, color, can_take, must_take) is, for an
\* empty destination, true iff must_take is false; for a destination holding a
\* piece of `color`, false; for one holding a piece of the other colour, true
\* iff can_take.  With (can_take, must_take) = (true, false) it decides, for
\* every square a sliding scan visits, whether the scan returns that square.
C22_CheckPosition ==
    (op = "check_position") =>
        LET q == args[1]
            color == args[2]
            can_take == args[3]
            must_take == args[4]
        IN  /\ before[q] = None => (result.val <=> ~must_take)
            /\ Holds(before, q, color) => ~result.val
            /\ Holds(before, q, Opposite(color)) => (result.val <=> can_take)
            /\ (can_take /\ ~must_take) =>
                 \A direction \in Direction, p \in Position :
                    Visits(before, p, direction, q) =>
                       (q \in SeqToSet(check_direction(before, p, direction, color))
                          <=> result.val)

\* The Black pawn on (4, 6) seen from the White pawn moved to (4, 3): the scan
\* to the north visits it and returns it, and check_position accepts it.
C22_Witness ==
    /\ op = "check_position"
    /\ args = << Pos(4, 6), "White", TRUE, FALSE >>
    /\ before[Pos(4, 3)] # None
    /\ result.val
    /\ Visits(before, Pos(4, 3), "N", Pos(4, 6))
    /\ Pos(4, 6) \in SeqToSet(check_direction(before, Pos(4, 3), "N", "White"))

\* C23: in the revision that captures by overwriting, a move_piece that fails
\* with PieceNotFound because `from` is empty leaves the board unchanged, the
\* cell `to` included.
C23_NotFoundLeavesBoard ==
    (op = "move_piece" /\ before[args[1]] = None) =>
        /\ ~result.ok
        /\ result.err = PieceNotFound(args[1])
        /\ \A q \in Position : board[q] = before[q]

\* C24: whenever execute_move returns an error, the board is the board it was
\* before the call, also when the second of two steps is the one that fails.
C24_ExecuteMoveAtomic ==
    (op = "execute_move" /\ ~result.ok) =>
        \A q \in Position : board[q] = before[q]

\* A MoveWithTake whose Take names the Move's destination, with the source and
\* the destination both occupied.
IsCapture(b, chess_move) ==
    /\ chess_move.kind = "MoveWithTake"
    /\ chess_move.take.position = chess_move.movement.to_position
    /\ b[chess_move.movement.from_position] # None
    /\ b[chess_move.movement.to_position] # None

CaptureDone(chess_move) ==
    LET from_position == chess_move.movement.from_position
        to_position == chess_move.movement.to_position
    IN  /\ result = Ok(Unit)
        /\ board[from_position] = None
        /\ board[to_position] = Some([Unwrap(before[from_position]) EXCEPT !.moved = TRUE])
        /\ \A q \in Position \ {from_position, to_position} : board[q] = before[q]

\* C25 as stated: execute_move(MoveWithTake(m, t)) takes before it moves, so
\* with t.position = m.to_position, an occupied source and an occupied
\* destination it succeeds, never returns Occupied, and ends with the mover on
\* the destination and the source empty.
C25_CaptureSucceeds ==
    (op = "execute_move" /\ IsCapture(before, args[1])) => CaptureDone(args[1])

\* C25 amended: the same for a source different from the destination.
C25_CaptureElsewhereSucceeds ==
    (/\ op = "execute_move"
     /\ IsCapture(before, args[1])
     /\ args[1].movement.from_position # args[1].movement.to_position) =>
        CaptureDone(args[1])

\* The White rook of (0, 0) captures the Black pawn on (5, 6).
C25_Witness ==
    /\ op = "execute_move"
    /\ args = << MoveWithTake(Movement(Pos(0, 0), Pos(5, 6)), [position |-> Pos(5, 6)]) >>
    /\ before[Pos(5, 6)] = Some(Piece_new("Black", "Pawn"))
    /\ result.ok
    /\ board[Pos(5, 6)] = Some([Piece_new("White", "Rook") EXCEPT !.moved = TRUE])
    /\ board[Pos(0, 0)] = None

\* C26: on every board reached from Board::new() by move_piece and take_piece
\* calls, a piece whose moved flag is false stands on a square that held a
\* piece of its colour and type in the starting layout.
C26_UnmovedAtHome ==
    \A q \in Position :
        (board[q] # None /\ ~Unwrap(board[q]).moved) =>
            /\ DEFAULT_BOARD[q] # None
            /\ Unwrap(DEFAULT_BOARD[q]).color = Unwrap(board[q]).color
            /\ Unwrap(DEFAULT_BOARD[q]).piece_type = Unwrap(board[q]).piece_type

\* A piece moved onto a starting square that take_piece had emptied: it stands
\* on another piece's starting square, with moved = true.
C26_Witness ==
    /\ calls = 2
    /\ op = "move_piece"
    /\ result.ok
    /\ DEFAULT_BOARD[args[2]] # None
    /\ Unwrap(DEFAULT_BOARD[args[2]]).piece_type # Unwrap(board[args[2]]).piece_type
    /\ Unwrap(board[args[2]]).moved
    /\ \E q \in Position : board[q] # None /\ ~Unwrap(board[q]).moved

Pieces(b) == { q \in Position : b[q] # None }

\* The squares of b holding a piece of the given colour and type.
PiecesOf(b, color, piece_type) ==
    { q \in Position :
        /\ b[q] # None
        /\ Unwrap(b[q]).color = color
        /\ Unwrap(b[q]).piece_type = piece_type }

\* C27: a successful move_piece keeps the number of pieces and the multiset of
\* (colour, type) pairs; a successful take_piece removes exactly one piece; a
\* failed call changes nothing; so the number of pieces never exceeds 32, never
\* grows, and shrinks only by a successful take_piece.
C27_PieceCount ==
    /\ (op = "move_piece" /\ result.ok) =>
          \A color \in Color, piece_type \in PieceType :
             Cardinality(PiecesOf(board, color, piece_type))
                = Cardinality(PiecesOf(before, color, piece_type))
    /\ (op = "take_piece" /\ result.ok) =>
          Cardinality(Pieces(board)) = Cardinality(Pieces(before)) - 1
    /\ ~result.ok => board = before
    /\ Cardinality(Pieces(board)) <= 32
    /\ Cardinality(Pieces(board)) <= Cardinality(Pieces(before))
    /\ Cardinality(Pieces(board)) < Cardinality(Pieces(before)) =>
          (op = "take_piece" /\ result.ok)

\* A successful move on a board from which take_piece has removed a piece.
C27_Witness ==
    /\ op = "move_piece"
    /\ result.ok
    /\ Cardinality(Pieces(before)) = 31
    /\ Cardinality(Pieces(board)) = 31

\* C29: move_piece(p, p) never changes the board: for an occupied p it returns
\* Occupied, the piece staying with its moved flag as it was; for an empty p
\* it returns NotFound.
C29_MoveOntoItself ==
    (op = "move_piece" /\ args[1] = args[2]) =>
        /\ \A q \in Position : board[q] = before[q]
        /\ before[args[1]] # None =>
              /\ Failed({"Occupied"})
              /\ result.err = Occupied(args[1], Unwrap(before[args[1]]).piece_type)
              /\ Unwrap(board[args[1]]).moved = Unwrap(before[args[1]]).moved
        /\ before[args[1]] = None =>
              (Failed({"NotFound"}) /\ result.err = NotFound(args[1]))

\* The unmoved rook of (0, 0) moved onto its own square.
C29_Witness ==
    /\ op = "move_piece"
    /\ args = << Pos(0, 0), Pos(0, 0) >>
    /\ before[Pos(0, 0)] = Some(Piece_new("White", "Rook"))
    /\ Failed({"Occupied"})
    /\ board[Pos(0, 0)] = Some(Piece_new("White", "Rook"))

\* s is among the squares check_positions gives for the piece on p of board b.
Offered(b, p, s) ==
    /\ b[p] # None
    /\ s \in SeqToSet(check_positions(b, p).val)

\* A call move_piece(p, s) for a square s that check_positions(p) offers:
\* it succeeds iff s is empty, and on a capture square it returns Occupied and
\* changes nothing.
OfferedMoveStep ==
    (op' = "move_piece" /\ Offered(board, args'[1], args'[2])) =>
        /\ result'.ok <=> board[args'[2]] = None
        /\ board[args'[2]] # None =>
              /\ Holds(board, args'[2], Opposite(Unwrap(board[args'[1]]).color))
              /\ result' = Err(Occupied(args'[2], Unwrap(board[args'[2]]).piece_type))
              /\ board' = board

\* take_piece(s) on a capture square s of p, then move_piece(p, s): the move
\* succeeds.
TakeThenMoveStep ==
    (/\ op = "take_piece"
     /\ result.ok
     /\ op' = "move_piece"
     /\ args'[2] = args[1]
     /\ args'[1] # args[1]
     /\ Offered(before, args'[1], args[1])) =>
        (result'.ok /\ board'[args[1]] # None /\ board'[args'[1]] = None)

\* A move_piece(p, s) that succeeds one call after s was a capture square of p
\* comes right after a successful take_piece(s).
OnlyAfterTakeStep ==
    (/\ op' = "move_piece"
     /\ result'.ok
     /\ Offered(before, args'[1], args'[2])
     /\ before[args'[2]] # None) =>
        (op = "take_piece" /\ args = << args'[2] >> /\ result.ok)

\* A move_piece(p, s) that succeeds one call after s was a capture square of p
\* comes right after a call that emptied s.
OnlyAfterEmptiedStep ==
    (/\ op' = "move_piece"
     /\ result'.ok
     /\ Offered(before, args'[1], args'[2])
     /\ before[args'[2]] # None) =>
        (result.ok /\ board[args'[2]] = None
           /\ \/ op = "take_piece" /\ args = << args'[2] >>
              \/ op = "move_piece" /\ args[1] = args'[2])

\* C28 as stated: for a square s that check_positions(p) returns, move_piece(p,
\* s) succeeds iff s is empty; on an enemy-held s it returns Occupied, and it
\* succeeds only after take_piece(s) has removed that piece.
C28_MoveAfterTakeOnly ==
    [][OfferedMoveStep /\ TakeThenMoveStep /\ OnlyAfterTakeStep]_vars

\* C28 amended: ... it succeeds after take_piece(s) has removed that piece,
\* and only once s has been emptied, by take_piece(s) or by a move_piece that
\* takes the piece on s elsewhere.
C28_MoveAfterEmptied ==
    [][OfferedMoveStep /\ TakeThenMoveStep /\ OnlyAfterEmptiedStep]_vars

\* move_piece(p, s) on a capture square s of p is refused with Occupied and
\* changes nothing; with the piece on s taken, the same move succeeds.
C28_Witness ==
    /\ op = "move_piece"
    /\ Offered(before, args[1], args[2])
    /\ Holds(before, args[2], Opposite(Unwrap(before[args[1]]).color))
    /\ Failed({"Occupied"})
    /\ board = before
    /\ move_piece(take_piece(board, args[2]).board, args[1], args[2]).result.ok

\* The largest number of squares check_positions returns for a sliding piece.
MostSquares(piece_type) ==
    CASE piece_type = "Queen" -> 27
      [] piece_type = "Rook" -> 14
      [] piece_type = "Bishop" -> 13

\* C30: every ray scan of check_direction ends after at most 7 steps, at the
\* board edge or at the first occupied square; check_positions returns at
\* most 27 squares for a queen, 14 for a rook and 13 for a bishop, all of them
\* squares of the board other than the piece's own.
C30_ScanBounded ==
    CheckedPiece({"Bishop", "Rook", "Queen"}) =>
        LET p == args[1]
            piece == Unwrap(before[p])
        IN  /\ \A direction \in Direction :
                 LET o == DirectionOffset(direction)
                     walk == check_direction_walk(before, p, o, 0)
                 IN  /\ walk.steps \in 0 .. 7
                     /\ walk.last = Pos(p.x + walk.steps * o.x, p.y + walk.steps * o.y)
                     /\ \A j \in 1 .. walk.steps - 1 :
                          before[Pos(p.x + j * o.x, p.y + j * o.y)] = None
                     /\ IF walk.edge
                        THEN /\ ~OnBoard(walk.last.x + o.x, walk.last.y + o.y)
                             /\ walk.steps > 0 => before[walk.last] = None
                        ELSE before[walk.last] # None
                     /\ Len(check_direction(before, p, direction, piece.color))
                          \in { walk.steps - 1, walk.steps } \cap (0 .. 7)
            /\ result.ok
            /\ Len(result.val) <= MostSquares(piece.piece_type)
            /\ \A i \in 1 .. Len(result.val) :
                 result.val[i] \in Position /\ result.val[i] # p

\* A bishop alone in the centre gets 13 squares, and a rook in the corner
\* walks the full seven steps to the edge.
C30_Witness ==
    /\ CheckedPiece({"Bishop", "Rook"})
    /\ \/ /\ Unwrap(before[args[1]]).piece_type = "Bishop"
          /\ Len(result.val) = 13
       \/ /\ Unwrap(before[args[1]]).piece_type = "Rook"
          /\ args[1] = Pos(0, 0)
          /\ check_direction_walk(before, args[1], Off(1, 0), 0)
                = [steps |-> 7, last |-> Pos(7, 0), edge |-> TRUE]
          /\ Len(result.val) = 14

====
